---------------------------- MODULE Spec2Model ----------------------------
(***************************************************************************)
(* Model of streamlit_app.py: HealthLabelGenerator (create_dxf,            *)
(* _draw_label, _draw_qr_from_image, create_multi_page_dxf) and            *)
(* parse_uploaded_files.                                                   *)
(*                                                                         *)
(* Conventions.                                                            *)
(*  - Lengths are decimal numbers with one decimal place, held as integers *)
(*    in tenths of a millimetre (65 mm = 650, 20.1 mm = 201).  The program *)
(*    holds them as ints or as binary doubles (the form passes floats);    *)
(*    the floor divisions of the config, whose result jumps with the       *)
(*    representation error of the doubles, are computed on the doubles     *)
(*    (FloatFloorDiv).  Sums and products of lengths are kept exact.       *)
(*  - A Python str that the code inspects (file names, label names) is a   *)
(*    sequence of one-character strings; the fixed texts of the config are *)
(*    TLA+ strings.                                                        *)
(*  - A raster is the image after convert('L'): a sequence of rows of      *)
(*    luminance values 0..255, indexed from 1 (numpy index i is i+1).      *)
(*  - The side of a QR square is size_mm / n, not an integer in general:   *)
(*    a hatch keeps exact rationals, its coordinates being numerators over *)
(*    the common denominator den = n.                                      *)
(*  - numpy/Python rounding (round half to even), floor division and       *)
(*    modulo with negative operands, and slicing are modelled by what they *)
(*    compute.                                                             *)
(***************************************************************************)
EXTENDS Integers, Sequences, FiniteSets, TLC

VARIABLES
    \* ---- generation run (HealthLabelGenerator) ----
    config,      \* self.config (None before __init__)
    user_config, \* the config argument of __init__
    labels,      \* the ordered label list
    qr_images,   \* dict: label name -> raster
    pc,          \* position of the run
    per_page,    \* create_multi_page_dxf: per_page
    pages,       \* create_multi_page_dxf: pages
    p,           \* create_multi_page_dxf: loop index
    files,       \* create_multi_page_dxf: files
    docs,        \* one entry per create_dxf call: its labels argument and its modelspace
    \* ---- upload parsing (parse_uploaded_files) ----
    uploaded_files, \* the uploaded files, in upload order
    parsed,         \* whether parse_uploaded_files has run on uploaded_files
    \* ---- QR vectorizer exercised alone ----
    raster,      \* an input raster
    factor,      \* an integer upscaling factor
    drawn,       \* result of _draw_qr_from_image on raster
    drawn_up     \* result of _draw_qr_from_image on the upscaled raster

vars == << config, user_config, labels, qr_images, pc, per_page, pages, p, files, docs,
           uploaded_files, parsed, raster, factor, drawn, drawn_up >>

\* None, and the empty dict: a value with no entries
None == << >>

-----------------------------------------------------------------------------
(* Python arithmetic and sequence primitives *)

Abs(a) == IF a < 0 THEN -a ELSE a

Max2(a, b) == IF a >= b THEN a ELSE b

Min2(a, b) == IF a <= b THEN a ELSE b

\* a // b for b # 0: the floor of a / b, also for negative operands
FloorDiv(a, b) ==
    LET q == Abs(a) \div Abs(b)
        exact == q * Abs(b) = Abs(a)
    IN  IF (a < 0) = (b < 0) THEN q
        ELSE IF exact THEN -q ELSE -(q + 1)

\* floor(log2(t / 10)) + 4 for t >= 1: the binary exponent of the double nearest to t / 10
BinaryExponent(t) == CHOOSE e \in 0 .. 24 : 5 * 2 ^ e <= 8 * t /\ 8 * t < 5 * 2 ^ (e + 1)

\* float(t / 10) - t / 10 in fifths of a unit in the last place (53-bit significand, round
\* to nearest): the double is at k * ulp for k the integer nearest to t * 2^(55 - e) / 5
RoundingError(t) ==
    IF t = 0 THEN 0
    ELSE LET pow == << 1, 2, 4, 3 >>[((55 - BinaryExponent(Abs(t))) % 4) + 1]
             r == ((Abs(t) % 5) * pow) % 5
         IN  << 0, -1, -2, 2, 1 >>[r + 1]

\* int(x // y) for b # 0, where x and y are the ints or doubles holding a / 10 and b / 10:
\* the floor of the exact quotient of the two held values.  It is the floor of a / b
\* unless b divides a, when the relative representation errors of the two decide whether
\* the quotient of the doubles falls just below the integer.
FloatFloorDiv(a, b) ==
    LET q == FloorDiv(a, b)
    IN  IF a = 0 \/ q * b # a THEN q
        ELSE LET shift == BinaryExponent(Abs(a)) - BinaryExponent(Abs(b))
                 ea == RoundingError(a) * 2 ^ shift
                 eb == RoundingError(b) * Abs(q)
             IN  IF q > 0 THEN (IF ea >= eb THEN q ELSE q - 1)
                 ELSE (IF ea <= eb THEN q ELSE q - 1)

\* a % b for b # 0: the sign of the divisor
PyMod(a, b) == a - b * FloorDiv(a, b)

\* seq[a:b] on a 0-based Python list held as a 1-based sequence
PySlice(seq, a, b) ==
    LET len == Len(seq)
        norm(i) == IF i < 0 THEN Max2(i + len, 0) ELSE Min2(i, len)
        lo == norm(a)
        hi == norm(b)
    IN  IF hi <= lo THEN << >> ELSE SubSeq(seq, lo + 1, hi)

\* range(0, stop, step) for step >= 1, as the sequence of its values
PyRange(stop, step) ==
    [i \in 1 .. (IF stop <= 0 THEN 0 ELSE ((stop - 1) \div step) + 1) |-> (i - 1) * step]

\* int(round(num / den)) for num >= 0, den > 0: round half to even
RoundHalfEven(num, den) ==
    LET q == num \div den
        r == num % den
    IN  IF 2 * r < den THEN q
        ELSE IF 2 * r > den THEN q + 1
        ELSE IF q % 2 = 0 THEN q ELSE q + 1

\* the concatenation of the sequences of ss, in order
RECURSIVE Flatten(_)
Flatten(ss) ==
    IF Len(ss) = 0 THEN << >>
    ELSE IF Len(ss) = 1 THEN ss[1]
    ELSE LET half == Len(ss) \div 2
         IN  Flatten(SubSeq(ss, 1, half)) \o Flatten(SubSeq(ss, half + 1, Len(ss)))

\* [x] * k
Repeat(x, k) == [i \in 1 .. Max2(k, 0) |-> x]

Range(s) == { s[i] : i \in DOMAIN s }

Count(s, x) == Cardinality({ i \in DOMAIN s : s[i] = x })


-----------------------------------------------------------------------------
(* QRVectorizer: HealthLabelGenerator._draw_qr_from_image *)

DarkThreshold == 128
MinModules == 21
MaxModules == 177
SampleLines == 10

\* mutant of Binarize: luminance 128 counts as dark
Binarize_Inclusive(img) ==
    [y \in DOMAIN img |-> [x \in DOMAIN img[y] |-> img[y][x] <= DarkThreshold]]

\* img_array = np.array(img) < 128
Binarize(img) == [y \in DOMAIN img |-> [x \in DOMAIN img[y] |-> img[y][x] < DarkThreshold]]

\* rows.any(): some pixel is dark
HasDark(arr) == \E y \in DOMAIN arr : \E x \in DOMAIN arr[y] : arr[y][x]

\* r0, r1, c0, c1 and qr = img_array[r0:r1+1, c0:c1+1], for an array with a dark pixel
CropToDark(arr) ==
    LET darkRows == { y \in DOMAIN arr : \E x \in DOMAIN arr[y] : arr[y][x] }
        darkCols == { x \in DOMAIN arr[1] : \E y \in DOMAIN arr : arr[y][x] }
        r0 == CHOOSE y \in darkRows : \A z \in darkRows : y <= z
        r1 == CHOOSE y \in darkRows : \A z \in darkRows : y >= z
        c0 == CHOOSE x \in darkCols : \A z \in darkCols : x <= z
        c1 == CHOOSE x \in darkCols : \A z \in darkCols : x >= z
    IN  [y \in 1 .. (r1 - r0 + 1) |-> [x \in 1 .. (c1 - c0 + 1) |-> arr[r0 + y - 1][c0 + x - 1]]]

\* trans = np.where(np.diff(line) != 0)[0]; np.diff(trans) when len(trans) > 1
TransitionGaps(line) ==
    LET Differs(i) == line[i] # line[i + 1]
        trans == SelectSeq([i \in 1 .. (Len(line) - 1) |-> i], Differs)
    IN  IF Len(trans) > 1
        THEN [j \in 1 .. (Len(trans) - 1) |-> trans[j + 1] - trans[j]]
        ELSE << >>

\* run_lengths: the gaps of the sampled rows, then those of the sampled columns
RunLengths(qr) ==
    LET h == Len(qr)
        w == Len(qr[1])
        rowIdx == PyRange(h, Max2(1, h \div SampleLines))
        colIdx == PyRange(w, Max2(1, w \div SampleLines))
        rowGaps == [k \in DOMAIN rowIdx |-> TransitionGaps(qr[rowIdx[k] + 1])]
        colGaps == [k \in DOMAIN colIdx |->
                       TransitionGaps([y \in 1 .. h |-> qr[y][colIdx[k] + 1]])]
    IN  Flatten(rowGaps) \o Flatten(colGaps)

\* the sorted copy np.median works on
SortInts(s) ==
    LET vals == Range(s)
        le == [v \in vals |-> Cardinality({ i \in DOMAIN s : s[i] <= v })]
        lt == [v \in vals |-> Cardinality({ i \in DOMAIN s : s[i] < v })]
    IN  [k \in 1 .. Len(s) |-> CHOOSE v \in vals : lt[v] < k /\ k <= le[v]]

\* 2 * np.median(s) for a non-empty s (the median is a half-integer in general)
Median2(s) ==
    LET sorted == SortInts(s)
        k == Len(s)
    IN  IF k % 2 = 1 THEN 2 * sorted[(k + 1) \div 2]
        ELSE sorted[k \div 2] + sorted[(k \div 2) + 1]

\* run_lengths[(run_lengths >= median_run * 0.5) & (run_lengths <= median_run * 1.5)]
FilterRuns(runs) ==
    LET m2 == Median2(runs)
        Keep(g) == 4 * g >= m2 /\ 4 * g <= 3 * m2
    IN  SelectSeq(runs, Keep)

\* px after line 182
ModulePx(qr) ==
    LET h == Len(qr)
        w == Len(qr[1])
        runs == RunLengths(qr)
        filtered == FilterRuns(runs)
        px == IF runs # << >>
              THEN IF Len(filtered) > 0 THEN RoundHalfEven(Median2(filtered), 2)
                   ELSE RoundHalfEven(Median2(runs), 2)
              ELSE Max2(1, Min2(h, w) \div MinModules)
    IN  Max2(1, px)

\* n = max(21, min(n, 177))
ClampModules(n) == Max2(MinModules, Min2(n, MaxModules))

\* n after line 184
ModuleCount(qr) ==
    LET h == Len(qr)
        w == Len(qr[1])
        px == ModulePx(qr)
    IN  ClampModules(Max2(RoundHalfEven(w, px), RoundHalfEven(h, px)))

\* min(int((i + 0.5) * len / n), len - 1), as a 1-based index
CentrePixel(i, len, n) == Min2(((2 * i + 1) * len) \div (2 * n), len - 1) + 1

\* whether qr[iy, ix] is dark for each module: <<r, c>> -> BOOLEAN, r and c from 0
ModuleGrid(qr, n) ==
    LET iy == [r \in 0 .. n - 1 |-> CentrePixel(r, Len(qr), n)]
        ix == [c \in 0 .. n - 1 |-> CentrePixel(c, Len(qr[1]), n)]
    IN  [r \in 0 .. n - 1 |-> [c \in 0 .. n - 1 |-> qr[iy[r]][ix[c]]]]

\* the polyline path of the hatch of module (r, c); coordinates are numerators over den = n
Hatch(dxf_x, dxf_y, size_mm, n, r, c, color) ==
    LET mx == dxf_x * n + c * size_mm
        my == dxf_y * n + (n - 1 - r) * size_mm
    IN  [kind |-> "HATCH", layer |-> "QR", color |-> color, den |-> n,
         path |-> << << mx, my >>, << mx + size_mm, my >>,
                     << mx + size_mm, my + size_mm >>, << mx, my + size_mm >> >>]

\* the hatches of module row r, for c in range(n)
RowHatches(grid, dxf_x, dxf_y, size_mm, n, r, color) ==
    LET IsDark(c) == grid[r][c]
        dark == SelectSeq([i \in 1 .. n |-> i - 1], IsDark)
    IN  [k \in DOMAIN dark |-> Hatch(dxf_x, dxf_y, size_mm, n, r, dark[k], color)]

\* _draw_qr_from_image: whether it got past the early return, and then the cropped
\* size, px, n and the hatches added to the modelspace, in order
QrRun(img, dxf_x, dxf_y, size_mm, color) ==
    LET img_array == Binarize(img)
    IN  IF ~HasDark(img_array)
        THEN [dark |-> FALSE, h |-> 0, w |-> 0, px |-> 0, n |-> 0, hatches |-> << >>]
        ELSE LET qr == CropToDark(img_array)
                 n == ModuleCount(qr)
                 grid == ModuleGrid(qr, n)
             IN  [dark |-> TRUE, h |-> Len(qr), w |-> Len(qr[1]),
                  px |-> ModulePx(qr), n |-> n,
                  hatches |-> Flatten([i \in 1 .. n |->
                      RowHatches(grid, dxf_x, dxf_y, size_mm, n, i - 1, color)])]

\* what _draw_qr_from_image adds to the modelspace
DrawQrFromImage(img, dxf_x, dxf_y, size_mm, color) ==
    QrRun(img, dxf_x, dxf_y, size_mm, color).hatches

-----------------------------------------------------------------------------
(* SheetConfig: DEFAULT_CONFIG and HealthLabelGenerator.__init__ *)

DEFAULT_CONFIG ==
    [canvas_width_mm |-> 6000, canvas_height_mm |-> 3000,
     label_width_mm |-> 650, label_height_mm |-> 200,
     org_name |-> "HEALTH", subtitle1 |-> "South Eastern Sydney",
     subtitle2 |-> "Local Health District",
     footer_text |-> "DO NOT REMOVE ASSET - CONTACT TAM",
     text_color |-> 5, cutting_color |-> 1, break_color |-> 4, line_width |-> 3,
     qr_size_mm |-> 115, qr_x_offset |-> 490, qr_y_offset |-> 30]

\* {**DEFAULT_CONFIG, **(config or {})}
MergeConfig(given) ==
    [k \in DOMAIN DEFAULT_CONFIG \cup DOMAIN given |->
        IF k \in DOMAIN given THEN given[k] ELSE DEFAULT_CONFIG[k]]

-----------------------------------------------------------------------------
(* LabelLayout: HealthLabelGenerator.create_dxf and _draw_label *)

Line(p1, p2, is_outer) ==
    [kind |-> "LINE", p1 |-> p1, p2 |-> p2,
     layer |-> IF is_outer THEN "Cutting" ELSE "Break"]

MText(text, tx, ty, h) ==
    [kind |-> "MTEXT", text |-> text, layer |-> "TEXT", insert |-> << tx, ty >>,
     char_height |-> h, attachment_point |-> 7, style |-> "CALIBRI"]

\* flipY = lambda sy: grid_h - sy
FlipY(grid_h, sy) == grid_h - sy

\* the five MTEXT entities of _draw_label
LabelTexts(cfg, x, y, label_name, grid_h) ==
    << MText(cfg.org_name, x + 130, FlipY(grid_h, y + 47), 20),
       MText(cfg.subtitle1, x + 130, FlipY(grid_h, y + 72), 13),
       MText(cfg.subtitle2, x + 130, FlipY(grid_h, y + 92), 13),
       MText(label_name, x + 70, FlipY(grid_h, y + 157), 20),
       MText(cfg.footer_text, x + 190, FlipY(grid_h, y + 180), 10) >>

\* the divider polyline of _draw_label
LabelDivider(cfg, x, y, grid_h) ==
    [kind |-> "LWPOLYLINE", layer |-> "TEXT", const_width |-> cfg.line_width,
     points |-> << << x + 122, FlipY(grid_h, y + 22) >>,
                   << x + 122, FlipY(grid_h, y + 102) >> >>]

\* if qr_images and label_name in qr_images
HasQr(qrs, label_name) == label_name \in DOMAIN qrs

\* mutant of LabelQr: the QR origin is flipped without the symbol's own height
LabelQr_TopOriginFlipped(cfg, x, y, label_name, grid_h, qrs) ==
    IF HasQr(qrs, label_name)
    THEN DrawQrFromImage(qrs[label_name], x + cfg.qr_x_offset,
                         FlipY(grid_h, y + cfg.qr_y_offset), cfg.qr_size_mm, cfg.text_color)
    ELSE << >>

\* the QR part of _draw_label
LabelQr(cfg, x, y, label_name, grid_h, qrs) ==
    IF HasQr(qrs, label_name)
    THEN LET qr_y == FlipY(grid_h, y + cfg.qr_y_offset + cfg.qr_size_mm)
         IN  DrawQrFromImage(qrs[label_name], x + cfg.qr_x_offset, qr_y,
                             cfg.qr_size_mm, cfg.text_color)
    ELSE << >>

\* everything _draw_label adds to the modelspace
DrawLabel(cfg, x, y, label_name, grid_h, qrs) ==
    LabelTexts(cfg, x, y, label_name, grid_h)
        \o << LabelDivider(cfg, x, y, grid_h) >>
        \o LabelQr(cfg, x, y, label_name, grid_h, qrs)

\* cols, rows_max, used_cols, used_rows, grid_h of create_dxf
Grid(cfg, count) ==
    LET cols == FloatFloorDiv(cfg.canvas_width_mm, cfg.label_width_mm)
        rows_max == FloatFloorDiv(cfg.canvas_height_mm, cfg.label_height_mm)
        used_rows == FloorDiv(count + cols - 1, cols)
    IN  [cols |-> cols, rows_max |-> rows_max,
         used_cols |-> Min2(cols, count), used_rows |-> used_rows,
         grid_h |-> used_rows * cfg.label_height_mm]

\* mutant of Edges: the right and bottom tests miss the "- 1"
Edges_OffByOne(col, row, used_cols, used_rows) ==
    << col = 0, col = used_cols, row = 0, row = used_rows >>

\* edges = [(col == 0, 'left'), (col == used_cols - 1, 'right'),
\*          (row == 0, 'top'), (row == used_rows - 1, 'bottom')]
Edges(col, row, used_cols, used_rows) ==
    << col = 0, col = used_cols - 1, row = 0, row = used_rows - 1 >>

\* the four border lines of the cell at (col, row), in the order of `lines`
CellLines(cfg, g, col, row) ==
    LET label_w == cfg.label_width_mm
        label_h == cfg.label_height_mm
        dxf_x == col * label_w
        dxf_y == g.grid_h - row * label_h - label_h
        edges == Edges(col, row, g.used_cols, g.used_rows)
    IN  << Line(<< dxf_x, dxf_y >>, << dxf_x + label_w, dxf_y >>, edges[4]),
           Line(<< dxf_x + label_w, dxf_y >>, << dxf_x + label_w, dxf_y + label_h >>, edges[2]),
           Line(<< dxf_x + label_w, dxf_y + label_h >>, << dxf_x, dxf_y + label_h >>, edges[3]),
           Line(<< dxf_x, dxf_y + label_h >>, << dxf_x, dxf_y >>, edges[1]) >>

\* what one iteration of the loop of create_dxf adds for labels[idx] (idx from 0)
CellEntities(cfg, g, idx, name, qrs) ==
    LET col == PyMod(idx, g.cols)
        row == FloorDiv(idx, g.cols)
    IN  CellLines(cfg, g, col, row)
            \o DrawLabel(cfg, col * cfg.label_width_mm, row * cfg.label_height_mm,
                         name, g.grid_h, qrs)

\* the modelspace create_dxf saves for the labels of one page
CreateDxf(cfg, page_labels, qrs) ==
    LET g == Grid(cfg, Len(page_labels))
        placed == PySlice(page_labels, 0, g.cols * g.rows_max)
    IN  Flatten([i \in DOMAIN placed |-> CellEntities(cfg, g, i - 1, placed[i], qrs)])

-----------------------------------------------------------------------------
(* PageSplitter: HealthLabelGenerator.create_multi_page_dxf *)

\* cols * int(canvas_height_mm // label_height_mm); needs non-zero label dimensions
PerPage(cfg) ==
    FloatFloorDiv(cfg.canvas_width_mm, cfg.label_width_mm)
        * FloatFloorDiv(cfg.canvas_height_mm, cfg.label_height_mm)

\* (len(labels) + per_page - 1) // per_page; needs per_page # 0
PageCount(count, perPage) == FloorDiv(count + perPage - 1, perPage)

\* labels[p * per_page:(p + 1) * per_page]
PageLabels(all, q, perPage) == PySlice(all, q * perPage, (q + 1) * perPage)

\* fname: base_name when there is one page, else base_name[:-2] and the page number
FileName(q, pageCount) ==
    IF pageCount = 1 THEN << "MLA Black On White 0.8mm 01", 0 >>
    ELSE << "MLA Black On White 0.8mm ", q + 1 >>

\* the divisions of lines 200-202 raise ZeroDivisionError
DividesByZero(cfg) ==
    IF cfg.label_width_mm = 0 THEN TRUE
    ELSE IF cfg.label_height_mm = 0 THEN TRUE
    ELSE PerPage(cfg) = 0

-----------------------------------------------------------------------------
(* Inputs of a generation run *)

MaxLabels == 4

LabelNames == { << "A" >>, << "B" >> }

LabelLists == UNION { [1 .. k -> LabelNames] : k \in 0 .. MaxLabels }

MaxQrLabels == 3

QrLabelLists ==
    UNION { [1 .. k -> LabelNames \cup { << "C" >> }] : k \in 0 .. MaxQrLabels }

\* the 140 labels of the capacity-135 example
ExampleLabels == [i \in 1 .. 140 |-> << "A" >>]

Dims(cw, ch, lw, lh) ==
    [canvas_width_mm |-> cw, canvas_height_mm |-> ch,
     label_width_mm |-> lw, label_height_mm |-> lh]

\* canvas and label at least one label wide and high: 1 to 3 columns, 1 or 2 rows; and a
\* canvas of 100.8 mm for labels of 33.6 mm, lengths the form passes as floats
ValidDims ==
    { Dims(cw, ch, 650, 200) : cw \in { 700, 1400, 2000 }, ch \in { 250, 450 } }
        \cup { Dims(1008, 250, 336, 200) }

\* a zero, a negative or a too large label dimension, or a non-positive canvas
InvalidDims ==
    { Dims(1400, 450, 0, 200), Dims(1400, 450, 650, 0),
      Dims(400, 450, 650, 200), Dims(1400, 100, 650, 200),
      Dims(0, 450, 650, 200), Dims(-1400, 450, 650, 200),
      Dims(1400, 450, -650, 200), Dims(-1400, 450, -650, 200),
      Dims(1400, -450, 650, -200) }

\* a raster with no dark pixel: every luminance is >= 128
WhiteRaster == << << 255, 128 >>, << 200, 255 >> >>

\* a raster with a quiet zone and two dark pixels (luminance < 128)
DarkRaster ==
    [y \in 1 .. 7 |-> [x \in 1 .. 7 |->
        IF y = 2 /\ x = 2 THEN 0 ELSE IF y = 6 /\ x = 6 THEN 127 ELSE 255]]

QrMaps == UNION { [names -> { WhiteRaster, DarkRaster }] : names \in SUBSET LabelNames }

\* the SheetConfig invariant of the data model
ValidConfig(cfg) ==
    /\ cfg.canvas_width_mm > 0 /\ cfg.canvas_height_mm > 0
    /\ cfg.label_width_mm > 0 /\ cfg.label_height_mm > 0
    /\ cfg.label_width_mm <= cfg.canvas_width_mm
    /\ cfg.label_height_mm <= cfg.canvas_height_mm

-----------------------------------------------------------------------------
(* The generation run: HealthLabelGenerator(config).create_multi_page_dxf(labels, ...) *)

IdleParse == uploaded_files = << >> /\ parsed = FALSE

IdleQr == raster = None /\ factor = 0 /\ drawn = None /\ drawn_up = None

\* the state before HealthLabelGenerator(user_config) is constructed
Start ==
    /\ config = None
    /\ pc = "start"
    /\ per_page = 0 /\ pages = 0 /\ p = 0
    /\ files = << >> /\ docs = << >>
    /\ IdleParse /\ IdleQr

\* runs over every sheet geometry, valid or not, and the capacity-135 example
Init ==
    /\ \/ /\ user_config \in ValidDims \cup InvalidDims
          /\ labels \in LabelLists
          /\ qr_images \in { None, [name \in { << "A" >> } |-> DarkRaster] }
       \/ /\ user_config = None
          /\ labels = ExampleLabels
          /\ qr_images = None
    /\ Start

\* runs over every assignment of rasters to label names, on a few sheet geometries
InitLabels ==
    /\ user_config \in { Dims(700, 250, 650, 200), Dims(1400, 450, 650, 200),
                         Dims(1400, 100, 650, 200) }
    /\ labels \in QrLabelLists
    /\ qr_images \in QrMaps
    /\ Start

\* generator = HealthLabelGenerator(config)
Construct ==
    /\ pc = "start"
    /\ config' = MergeConfig(user_config)
    /\ pc' = "constructed"
    /\ UNCHANGED << user_config, labels, qr_images, per_page, pages, p, files, docs,
                    uploaded_files, parsed, raster, factor, drawn, drawn_up >>

\* create_multi_page_dxf up to its loop: cols, per_page, pages, files = []
BeginPages ==
    /\ pc = "constructed"
    /\ ~DividesByZero(config)
    /\ per_page' = PerPage(config)
    /\ pages' = PageCount(Len(labels), PerPage(config))
    /\ p' = 0
    /\ files' = << >>
    /\ pc' = "loop"
    /\ UNCHANGED << config, user_config, labels, qr_images, docs,
                    uploaded_files, parsed, raster, factor, drawn, drawn_up >>

\* create_multi_page_dxf: a division of lines 200-202 raises ZeroDivisionError
RaiseZeroDivision ==
    /\ pc = "constructed"
    /\ DividesByZero(config)
    /\ pc' = "error"
    /\ UNCHANGED << config, user_config, labels, qr_images, per_page, pages, p, files, docs,
                    uploaded_files, parsed, raster, factor, drawn, drawn_up >>

\* one iteration of the loop: slice the page, create_dxf, files.append(fname)
CreatePage ==
    /\ pc = "loop"
    /\ p < pages
    /\ LET page_labels == PageLabels(labels, p, per_page)
       IN  docs' = Append(docs, [page |-> p, labels |-> page_labels,
                                 msp |-> CreateDxf(config, page_labels, qr_images)])
    /\ files' = Append(files, FileName(p, pages))
    /\ p' = p + 1
    /\ UNCHANGED << config, user_config, labels, qr_images, pc, per_page, pages,
                    uploaded_files, parsed, raster, factor, drawn, drawn_up >>

\* return files
ReturnFiles ==
    /\ pc = "loop"
    /\ p >= pages
    /\ pc' = "done"
    /\ UNCHANGED << config, user_config, labels, qr_images, per_page, pages, p, files, docs,
                    uploaded_files, parsed, raster, factor, drawn, drawn_up >>

Next == Construct \/ BeginPages \/ RaiseZeroDivision \/ CreatePage \/ ReturnFiles

Spec == Init /\ [][Next]_vars

SpecLabels == InitLabels /\ [][Next]_vars

-----------------------------------------------------------------------------
(* InputNormalizer: parse_uploaded_files *)

\* the characters of file names: printable ASCII without the backquote, in the order of
\* their code points, chr(32) .. chr(95) and chr(97) .. chr(126)
AsciiUpTo95 ==
    << " ", "!", "\"", "#", "$", "%", "&", "'", "(", ")", "*", "+", ",", "-", ".", "/",
       "0", "1", "2", "3", "4", "5", "6", "7", "8", "9", ":", ";", "<", "=", ">", "?",
       "@", "A", "B", "C", "D", "E", "F", "G", "H", "I", "J", "K", "L", "M", "N", "O",
       "P", "Q", "R", "S", "T", "U", "V", "W", "X", "Y", "Z", "[", "\\", "]", "^", "_" >>

AsciiFrom97 ==
    << "a", "b", "c", "d", "e", "f", "g", "h", "i", "j", "k", "l", "m", "n", "o",
       "p", "q", "r", "s", "t", "u", "v", "w", "x", "y", "z", "{", "|", "}", "~" >>

\* ord(c)
Ord(c) ==
    IF \E i \in DOMAIN AsciiUpTo95 : AsciiUpTo95[i] = c
    THEN 31 + (CHOOSE i \in DOMAIN AsciiUpTo95 : AsciiUpTo95[i] = c)
    ELSE 96 + (CHOOSE i \in DOMAIN AsciiFrom97 : AsciiFrom97[i] = c)

\* the characters \d matches
Digits == { "0", "1", "2", "3", "4", "5", "6", "7", "8", "9" }

\* a < b for Python strings: the first differing character decides, a proper prefix is smaller
StrLess(a, b) ==
    \E i \in 1 .. Len(b) :
        /\ \A j \in 1 .. i - 1 : j <= Len(a) /\ a[j] = b[j]
        /\ IF i > Len(a) THEN Len(a) = i - 1 ELSE Ord(a[i]) < Ord(b[i])

\* sorted(uploaded_files, key=lambda x: x.name): stable
SortedByName(fs) ==
    LET Before(i, j) == StrLess(fs[i].name, fs[j].name) \/ (fs[i].name = fs[j].name /\ i < j)
        rank == [i \in DOMAIN fs |-> Cardinality({ j \in DOMAIN fs : Before(j, i) }) + 1]
    IN  [k \in DOMAIN fs |-> fs[CHOOSE i \in DOMAIN fs : rank[i] = k]]

\* name.rfind(c) + 1: the last position of c in name, 0 when there is none
LastIndex(name, c) ==
    LET at == { i \in DOMAIN name : name[i] = c }
    IN  IF at = {} THEN 0 ELSE CHOOSE i \in at : \A j \in at : j <= i

\* os.path.splitext(name)[0] (posixpath): cut at the last dot when it comes after the last
\* "/" and some character between the two is not a dot; otherwise the whole name
SplitExtRoot(name) ==
    LET sepIndex == LastIndex(name, "/")
        dotIndex == LastIndex(name, ".")
    IN  IF dotIndex > sepIndex /\ \E i \in sepIndex + 1 .. dotIndex - 1 : name[i] # "."
        THEN SubSeq(name, 1, dotIndex - 1)
        ELSE name

\* int(digits)
RECURSIVE ParseInt(_)
ParseInt(ds) ==
    IF ds = << >> THEN 0
    ELSE 10 * ParseInt(SubSeq(ds, 1, Len(ds) - 1)) + (Ord(ds[Len(ds)]) - 48)

\* the positions of "_x" at which re.match(r'^(.+)_x(\d+)$', name) can split the name
MatchSplits(name) ==
    { i \in 2 .. Len(name) - 2 :
        /\ name[i] = "_" /\ name[i + 1] = "x"
        /\ \A j \in i + 2 .. Len(name) : name[j] \in Digits }

\* one iteration of the loop: the labels appended and the key the raster is stored under
ParseName(name) ==
    IF MatchSplits(name) # {}
    THEN LET i == CHOOSE k \in MatchSplits(name) : TRUE
             base_name == SubSeq(name, 1, i - 1)
             qty == ParseInt(SubSeq(name, i + 2, Len(name)))
         IN  [appended |-> Repeat(base_name, qty), key |-> base_name]
    ELSE [appended |-> << name >>, key |-> name]

\* the (labels, qr_images) parse_uploaded_files returns
ParseUploadedFiles(fs) ==
    LET sorted == SortedByName(fs)
        item == [k \in DOMAIN sorted |-> ParseName(SplitExtRoot(sorted[k].name))]
        keys == { item[k].key : k \in DOMAIN sorted }
        last(key) == CHOOSE k \in DOMAIN sorted :
                        /\ item[k].key = key
                        /\ \A m \in DOMAIN sorted : item[m].key = key => m <= k
    IN  [labels |-> Flatten([k \in DOMAIN sorted |-> item[k].appended]),
         qr_images |-> [key \in keys |-> sorted[last(key)].data]]

MaxFiles == 2

Png == << ".", "p", "n", "g" >>

\* file-name stems: plain, with a quantity, with a zero or malformed quantity
UploadStems ==
    { << "A" >>, << "B" >>,
      << "A", "_", "x", "2" >>, << "A", "_", "x", "4" >>, << "B", "_", "x", "1", "3" >>,
      << "A", ".", "1", "_", "x", "2" >>, << "A", "_", "x", "0", "2" >>,
      << "A", "_", "x", "0" >>, << "A", "_", "x", "y" >>,
      << "A", "_", "x" >>, << "_", "x", "2" >> }

\* file names: the stems with the extension .png, and two names with a directory part, one
\* with a dot before the "/" only and one whose last component has a leading dot only
UploadNames ==
    { stem \o Png : stem \in UploadStems }
        \cup { << "A", ".", "1", "/", "B", "_", "x", "2" >>, << "A", "/" >> \o Png }

UploadedFile(name, data) == [name |-> name, data |-> data]

InitParse ==
    /\ uploaded_files = << >>
    /\ parsed = FALSE
    /\ labels = << >>
    /\ qr_images = None
    /\ user_config = None /\ config = None
    /\ pc = "start"
    /\ per_page = 0 /\ pages = 0 /\ p = 0
    /\ files = << >> /\ docs = << >>
    /\ IdleQr

\* st.file_uploader: one more file is uploaded
Upload ==
    /\ Len(uploaded_files) < MaxFiles
    /\ \E name \in UploadNames, data \in { WhiteRaster, DarkRaster } :
           uploaded_files' = Append(uploaded_files, UploadedFile(name, data))
    /\ parsed' = FALSE
    /\ UNCHANGED << config, user_config, labels, qr_images, pc, per_page, pages, p, files,
                    docs, raster, factor, drawn, drawn_up >>

\* labels, qr_images = parse_uploaded_files(uploaded_files)
Parse ==
    /\ ~parsed
    /\ labels' = ParseUploadedFiles(uploaded_files).labels
    /\ qr_images' = ParseUploadedFiles(uploaded_files).qr_images
    /\ parsed' = TRUE
    /\ UNCHANGED << config, user_config, pc, per_page, pages, p, files, docs,
                    uploaded_files, raster, factor, drawn, drawn_up >>

NextParse == Upload \/ Parse

SpecParse == InitParse /\ [][NextParse]_vars

-----------------------------------------------------------------------------
(* The QR vectorizer on a raster and on its integer upscaling *)

MaxTileCols == 8
MaxTileRows == 2
MaxFactor == 2

\* module rows three modules wide: solid, one or two dark modules, blank
PatternRows ==
    { << 0, 0, 0 >>, << 0, 255, 255 >>, << 0, 255, 0 >>, << 255, 255, 255 >> }

\* two-row module patterns
Patterns == { << a, b >> : a \in PatternRows, b \in PatternRows }

\* the pattern repeated th times down and tw times across, one pixel per module
Tile(pat, th, tw) ==
    [y \in 1 .. Len(pat) * th |-> [x \in 1 .. Len(pat[1]) * tw |->
        pat[((y - 1) % Len(pat)) + 1][((x - 1) % Len(pat[1])) + 1]]]

\* a row given by its run lengths, of luminance lum (0 or 255) first
RECURSIVE RunsRow(_, _)
RunsRow(runs, lum) ==
    IF runs = << >> THEN << >>
    ELSE Repeat(lum, Head(runs)) \o RunsRow(Tail(runs), 255 - lum)

\* rasters whose rows have a single gap each, of different widths
GapRasters ==
    { << RunsRow(<< 1, 1, 118 >>, 0), RunsRow(<< 1, 9, 110 >>, 0) >>,
      << RunsRow(<< 1, 2, 57 >>, 0), RunsRow(<< 1, 3, 56 >>, 0) >> }

TestRasters ==
    { Tile(pat, th, tw) : pat \in Patterns, th \in 1 .. MaxTileRows, tw \in 1 .. MaxTileCols }
        \cup GapRasters

\* every pixel replaced by a k x k block
Upscale(img, k) ==
    [y \in 1 .. Len(img) * k |-> [x \in 1 .. Len(img[1]) * k |->
        img[((y - 1) \div k) + 1][((x - 1) \div k) + 1]]]

InitQr ==
    /\ raster \in TestRasters
    /\ factor \in 1 .. MaxFactor
    /\ drawn = None /\ drawn_up = None
    /\ user_config = None
    /\ config = MergeConfig(None)
    /\ labels = << >> /\ qr_images = None
    /\ pc = "start"
    /\ per_page = 0 /\ pages = 0 /\ p = 0
    /\ files = << >> /\ docs = << >>
    /\ IdleParse

\* _draw_qr_from_image(msp, raster, 0, 0, qr_size_mm)
DrawRaster ==
    /\ drawn = None
    /\ drawn' = QrRun(raster, 0, 0, config.qr_size_mm, config.text_color)
    /\ UNCHANGED << config, user_config, labels, qr_images, pc, per_page, pages, p, files,
                    docs, uploaded_files, parsed, raster, factor, drawn_up >>

\* _draw_qr_from_image(msp, the raster upscaled by factor, 0, 0, qr_size_mm)
DrawUpscaled ==
    /\ drawn_up = None
    /\ drawn_up' = QrRun(Upscale(raster, factor), 0, 0, config.qr_size_mm, config.text_color)
    /\ UNCHANGED << config, user_config, labels, qr_images, pc, per_page, pages, p, files,
                    docs, uploaded_files, parsed, raster, factor, drawn >>

NextQr == DrawRaster \/ DrawUpscaled

SpecQr == InitQr /\ [][NextQr]_vars

-----------------------------------------------------------------------------
(* Reading a saved modelspace back *)

EntitiesOfKind(msp, kind) ==
    LET IsKind(e) == e.kind = kind
    IN  SelectSeq(msp, IsKind)

\* the entities of the k-th cell (k from 0): from its first border line up to the next cell's
CellSegment(msp, k) ==
    LET IsLineAt(i) == msp[i].kind = "LINE"
        linePos == SelectSeq([i \in 1 .. Len(msp) |-> i], IsLineAt)
        first == linePos[4 * k + 1]
        last == IF 4 * k + 5 <= Len(linePos) THEN linePos[4 * k + 5] - 1 ELSE Len(msp)
    IN  SubSeq(msp, first, last)

\* the labels of all create_dxf calls so far, in call order
DocLabels == Flatten([i \in DOMAIN docs |-> docs[i].labels])

SetMin(S) == CHOOSE v \in S : \A u \in S : v <= u
SetMax(S) == CHOOSE v \in S : \A u \in S : v >= u

\* the border lines of a page, four per cell in cell order
PageLines(d) == EntitiesOfKind(d.msp, "LINE")

\* the sheet rectangle [x0, x1] x [y0, y1] the four border lines of the k-th cell span
CellBox(lines, k) ==
    LET ends == UNION { { lines[j].p1, lines[j].p2 } : j \in 4 * k + 1 .. 4 * k + 4 }
    IN  [x0 |-> SetMin({ e[1] : e \in ends }), x1 |-> SetMax({ e[1] : e \in ends }),
         y0 |-> SetMin({ e[2] : e \in ends }), y1 |-> SetMax({ e[2] : e \in ends })]

\* the highest sheet y of the border lines of a page: the top of its first row
PageTop(lines) == SetMax(UNION { { lines[j].p1[2], lines[j].p2[2] } : j \in DOMAIN lines })

\* where each cell k (from 0) of a page lies in the grid of the page, on a sheet with
\* positive label dimensions: its column and row, counted from the left and from the top
CellsOf(cfg, d) ==
    LET lines == PageLines(d)
        top == PageTop(lines)
    IN  [k \in 0 .. Len(d.labels) - 1 |->
            LET box == CellBox(lines, k)
            IN  [col |-> box.x0 \div cfg.label_width_mm,
                 row |-> (top - box.y1) \div cfg.label_height_mm,
                 onGrid |-> /\ box.x0 % cfg.label_width_mm = 0
                            /\ (top - box.y1) % cfg.label_height_mm = 0
                            /\ box.x1 = box.x0 + cfg.label_width_mm
                            /\ box.y1 = box.y0 + cfg.label_height_mm]]

\* the columns and rows the cells of a page occupy
UsedColsOf(cells) == SetMax({ cells[k].col : k \in DOMAIN cells }) + 1
UsedRowsOf(cells) == SetMax({ cells[k].row : k \in DOMAIN cells }) + 1

\* floor(canvas_width / label_width) and floor(canvas_height / label_height)
ColsOf(cfg) == FloorDiv(cfg.canvas_width_mm, cfg.label_width_mm)
RowsOf(cfg) == FloorDiv(cfg.canvas_height_mm, cfg.label_height_mm)

-----------------------------------------------------------------------------
(* C1 *)

Constructed == pc # "start"

\* floor(canvas_width/label_width) * floor(canvas_height/label_height), 0 when a label
\* dimension is 0
Capacity ==
    IF config.label_width_mm = 0 \/ config.label_height_mm = 0 THEN 0
    ELSE ColsOf(config) * RowsOf(config)

\* q = ceil(count / cap) for cap >= 1
IsCeilDiv(q, count, cap) == q >= 0 /\ q * cap >= count /\ (q = 0 \/ (q - 1) * cap < count)

\* C1: with capacity = floor(canvas_width/label_width) * floor(canvas_height/label_height)
\* >= 1, create_multi_page_dxf raises nothing, makes ceil(len(labels)/capacity) pages (none
\* for an empty list), calls create_dxf once per page in increasing page index, each page
\* holds at most capacity labels, and the pages concatenated in order are the label list;
\* the default sheet (600x300, labels 65x20) has 9 columns, 15 rows, capacity 135, and 140
\* labels give the pages of 135 and 5 labels.
C1_Pagination ==
    (Constructed /\ Capacity >= 1) =>
        /\ pc # "error"
        /\ \A i \in DOMAIN docs :
               /\ docs[i].page = i - 1
               /\ Len(docs[i].labels) <= Capacity
               /\ Len(docs[i].labels) >= 1
        /\ pc \in { "loop", "done" } =>
               /\ IsCeilDiv(pages, Len(labels), Capacity)
               /\ Len(docs) = p /\ Len(files) = p /\ p <= pages
               /\ DocLabels = SubSeq(labels, 1, Len(DocLabels))
               /\ \A i \in DOMAIN docs : i < Len(docs) => Len(docs[i].labels) = Capacity
        /\ pc = "done" =>
               /\ Len(docs) = pages
               /\ DocLabels = labels
               /\ (labels = << >> => docs = << >> /\ files = << >>)
        /\ (user_config = None /\ pc = "done") =>
               /\ ColsOf(config) = 9 /\ RowsOf(config) = 15 /\ Capacity = 135
               /\ Len(labels) = 140 /\ Len(docs) = 2
               /\ Len(docs[1].labels) = 135 /\ Len(docs[2].labels) = 5

-----------------------------------------------------------------------------
(* C2 *)

\* the layers of the border lines of cell k of a page, told apart by where they lie: the
\* bottom line is the horizontal one at the lowest sheet y of the cell, the top one at the
\* highest; sides are the lines that lie on a side of the cell
BorderLayers(all, k) ==
    LET box == CellBox(all, k)
        lines == SubSeq(all, 4 * k + 1, 4 * k + 4)
        On(a, b) == { i \in 1 .. 4 : { lines[i].p1, lines[i].p2 } = { a, b } }
        bottom == On(<< box.x0, box.y0 >>, << box.x1, box.y0 >>)
        top == On(<< box.x0, box.y1 >>, << box.x1, box.y1 >>)
        left == On(<< box.x0, box.y0 >>, << box.x0, box.y1 >>)
        right == On(<< box.x1, box.y0 >>, << box.x1, box.y1 >>)
    IN  [bottom |-> { lines[i].layer : i \in bottom }, top |-> { lines[i].layer : i \in top },
         left |-> { lines[i].layer : i \in left }, right |-> { lines[i].layer : i \in right },
         sides |-> bottom \cup top \cup left \cup right,
         perSide |-> << Cardinality(bottom), Cardinality(top), Cardinality(left),
                        Cardinality(right) >>]

LayerIff(is_cut) == IF is_cut THEN { "Cutting" } ELSE { "Break" }

\* C2: on a valid sheet, for every page of at most capacity labels create_dxf emits exactly
\* 4 border lines per label cell, one per side; with (col, row) the place of the cell in the
\* grid of the page and used_cols, used_rows the columns and rows the page occupies, the
\* left line is on layer Cutting iff col = 0, the right iff col = used_cols - 1, the top iff
\* row = 0, the bottom iff row = used_rows - 1, and on Break otherwise, where bottom is the
\* side at the lowest sheet y of the cell and top the one at the highest; a page of one
\* label has 4 Cutting lines.
C2_BorderLayers ==
    (Constructed /\ ValidConfig(config)) =>
        \A i \in DOMAIN docs :
            LET d == docs[i]
                count == Len(d.labels)
                lines == PageLines(d)
                cells == CellsOf(config, d)
                used_cols == UsedColsOf(cells)
                used_rows == UsedRowsOf(cells)
            IN  count <= Capacity =>
                /\ Len(lines) = 4 * count
                /\ \A k \in 0 .. count - 1 :
                       LET b == BorderLayers(lines, k)
                       IN  /\ cells[k].onGrid
                           /\ b.sides = 1 .. 4 /\ b.perSide = << 1, 1, 1, 1 >>
                           /\ b.left = LayerIff(cells[k].col = 0)
                           /\ b.right = LayerIff(cells[k].col = used_cols - 1)
                           /\ b.top = LayerIff(cells[k].row = 0)
                           /\ b.bottom = LayerIff(cells[k].row = used_rows - 1)
                /\ count = 1 => \A j \in DOMAIN lines : lines[j].layer = "Cutting"

\* a page of two full rows of two labels has been laid out, with lines of both layers
C2_Witness ==
    /\ Constructed /\ ValidConfig(config)
    /\ \E i \in DOMAIN docs :
           /\ Len(docs[i].labels) = 4
           /\ UsedColsOf(CellsOf(config, docs[i])) = 2
           /\ UsedRowsOf(CellsOf(config, docs[i])) = 2
           /\ \E l \in Range(PageLines(docs[i])) : l.layer = "Break"
           /\ \E l \in Range(PageLines(docs[i])) : l.layer = "Cutting"

-----------------------------------------------------------------------------
(* C3 *)

\* whether a page with these cells has a cell at (col, row) of its grid
Placed(cells, col, row) == \E j \in DOMAIN cells : cells[j].col = col /\ cells[j].row = row

\* C3: on every page produced on a valid sheet, each side of each label cell across which
\* no other cell of the page is adjacent lies on the outer boundary and is on layer
\* Cutting, also on pages whose last row is only partly filled.
C3_OuterSidesAreCut ==
    (Constructed /\ ValidConfig(config)) =>
        \A i \in DOMAIN docs :
            LET lines == PageLines(docs[i])
                cells == CellsOf(config, docs[i])
            IN  \A k \in DOMAIN cells :
                    LET b == BorderLayers(lines, k)
                        col == cells[k].col
                        row == cells[k].row
                    IN  /\ ~Placed(cells, col - 1, row) => b.left = { "Cutting" }
                        /\ ~Placed(cells, col + 1, row) => b.right = { "Cutting" }
                        /\ ~Placed(cells, col, row - 1) => b.top = { "Cutting" }
                        /\ ~Placed(cells, col, row + 1) => b.bottom = { "Cutting" }

-----------------------------------------------------------------------------
(* C4 *)

\* C4: a run on a config with a non-positive canvas or label dimension, or a label wider or
\* higher than the canvas, ends in an error before create_dxf lays out any page; it never
\* returns normally.
C4_InvalidConfigFailsFast ==
    (Constructed /\ ~ValidConfig(config)) =>
        /\ docs = << >>
        /\ pc \in { "constructed", "error" }

-----------------------------------------------------------------------------
(* C5, C6 *)

\* the positions at which a stem reads <base>_x<N> with a non-empty base and N >= 1
QuantitySplits(stem) ==
    { i \in 2 .. Len(stem) - 2 :
        /\ stem[i] = "_" /\ stem[i + 1] = "x"
        /\ \A j \in i + 2 .. Len(stem) : stem[j] \in Digits
        /\ \E j \in i + 2 .. Len(stem) : stem[j] # "0" }

\* the stem has a "_x" suffix after a non-empty base, but no quantity N >= 1 in it
IllFormedQuantity(stem) ==
    /\ QuantitySplits(stem) = {}
    /\ \E i \in 2 .. Len(stem) - 1 : stem[i] = "_" /\ stem[i + 1] = "x"

\* the name under which the claims have a stem counted and its raster registered
NormalizedName(stem) ==
    IF QuantitySplits(stem) = {} THEN stem
    ELSE SubSeq(stem, 1, (CHOOSE i \in QuantitySplits(stem) : TRUE) - 1)

\* the labels the claims have a stem append: base N times, any other stem once
ExpectedAppended(stem) ==
    IF QuantitySplits(stem) = {} THEN << stem >>
    ELSE LET i == CHOOSE k \in QuantitySplits(stem) : TRUE
         IN  Repeat(SubSeq(stem, 1, i - 1), ParseInt(SubSeq(stem, i + 2, Len(stem))))

StemOf(f) == SplitExtRoot(f.name)

\* the label sequence the claims describe for the uploaded files
ExpectedLabels ==
    LET sorted == SortedByName(uploaded_files)
    IN  Flatten([k \in DOMAIN sorted |-> ExpectedAppended(StemOf(sorted[k]))])

\* C5: a stem whose quantity suffix is ill-formed (N = 0 as in 'A_x0', or not a number as in
\* 'A_xy') is treated as not matching: the literal stem is appended once per such file and
\* the raster is registered under the literal stem.
C5_IllFormedQuantityIsLiteral ==
    parsed =>
        \A k \in DOMAIN uploaded_files :
            LET stem == StemOf(uploaded_files[k])
            IN  IllFormedQuantity(stem) =>
                    /\ stem \in DOMAIN qr_images
                    /\ Count(labels, stem) = Count(ExpectedLabels, stem)
                    /\ Count(labels, stem) >= 1

\* C6: the entries are processed in file-name order; a stem <base>_x<N> with N >= 1 appends
\* base N times in a row and registers the raster under base, every other stem appends the
\* stem once and registers the raster under the stem; so each name is counted as the sum of
\* the contributions of the entries that normalize to it, every label has a raster, and of
\* two entries with one normalized name the later in sort order supplies the raster.
C6_NormalizedInSortedOrder ==
    parsed =>
        LET sorted == SortedByName(uploaded_files)
            names == { NormalizedName(StemOf(sorted[k])) : k \in DOMAIN sorted }
        IN  /\ \A k \in DOMAIN sorted : k > 1 => ~StrLess(sorted[k].name, sorted[k - 1].name)
            /\ labels = ExpectedLabels
            /\ \A b \in names : Count(labels, b) = Count(ExpectedLabels, b)
            /\ \A i \in DOMAIN labels : labels[i] \in DOMAIN qr_images
            /\ DOMAIN qr_images = names
            /\ \A k \in DOMAIN sorted :
                   (\A m \in DOMAIN sorted :
                        m > k => NormalizedName(StemOf(sorted[m]))
                                     # NormalizedName(StemOf(sorted[k])))
                       => qr_images[NormalizedName(StemOf(sorted[k]))] = sorted[k].data

-----------------------------------------------------------------------------
(* C7 *)

\* the raster has no dark pixel: all luminance >= 128
Blank(img) == \A y \in DOMAIN img : \A x \in DOMAIN img[y] : img[y][x] >= 128

\* the rasters without the blank ones
WithoutBlank(qrs) == [name \in { b \in DOMAIN qrs : ~Blank(qrs[b]) } |-> qrs[name]]

IsHatch(e) == e.kind = "HATCH"
NotHatch(e) == e.kind # "HATCH"

\* C7: a label whose raster has no dark pixel, like a label with no raster, gets no filled
\* polygon and no error; its 4 border lines, 5 texts and divider are those of the same
\* label without a raster, and the rest of the page is what it is without the blank rasters.
C7_BlankRasterDrawsNothing ==
    Constructed =>
        \A i \in DOMAIN docs :
            LET d == docs[i]
                bare == CreateDxf(config, d.labels, None)
            IN  /\ d.msp = CreateDxf(config, d.labels, WithoutBlank(qr_images))
                /\ SelectSeq(d.msp, NotHatch) = bare
                /\ \A k \in 0 .. Len(d.labels) - 1 :
                       LET name == d.labels[k + 1]
                           cell == CellSegment(d.msp, k)
                       IN  (name \notin DOMAIN qr_images \/ Blank(qr_images[name])) =>
                               /\ cell = CellSegment(bare, k)
                               /\ Len(EntitiesOfKind(cell, "LINE")) = 4
                               /\ Len(EntitiesOfKind(cell, "MTEXT")) = 5
                               /\ Len(EntitiesOfKind(cell, "LWPOLYLINE")) = 1
                               /\ Len(cell) = 10

\* a page holds a label with a blank raster, a label with no raster and a label with squares
C7_Witness ==
    /\ Constructed
    /\ \E i \in DOMAIN docs : \E a, b, c \in 0 .. Len(docs[i].labels) - 1 :
           /\ docs[i].labels[a + 1] \in DOMAIN qr_images
           /\ Blank(qr_images[docs[i].labels[a + 1]])
           /\ \E y \in DOMAIN qr_images[docs[i].labels[a + 1]] :
                  \E x \in DOMAIN qr_images[docs[i].labels[a + 1]][y] :
                      qr_images[docs[i].labels[a + 1]][y][x] = 128
           /\ Len(CellSegment(docs[i].msp, a)) = 10
           /\ docs[i].labels[b + 1] \notin DOMAIN qr_images
           /\ Len(CellSegment(docs[i].msp, b)) = 10
           /\ SelectSeq(CellSegment(docs[i].msp, c), IsHatch) # << >>

-----------------------------------------------------------------------------
(* C9 *)

\* the dark modules (r, c) of a raster with a dark pixel: those whose centre pixel is dark
DarkModules(img) ==
    LET qr == CropToDark(Binarize(img))
        n == ModuleCount(qr)
        grid == ModuleGrid(qr, n)
    IN  { rc \in (0 .. n - 1) \X (0 .. n - 1) : grid[rc[1]][rc[2]] }

\* the corners of the axis-parallel rectangle [a, a + w] x [b, b + h]
Corners(a, b, w, h) == { << a, b >>, << a + w, b >>, << a + w, b + h >>, << a, b + h >> }

\* C9: on a valid sheet, for every label with a raster, with (x, y) = (col * label_width,
\* row * label_height) the top-down origin of its cell and content_y = grid_h - sheet_y:
\* every QR square lies inside [x + qr_x_offset, x + qr_x_offset + qr_size_mm] x
\* [y + qr_y_offset, y + qr_y_offset + qr_size_mm], has side qr_size_mm / n, and the squares
\* are those of the dark modules (r, c), at (origin_x + c * side, origin_y + (n - 1 - r) *
\* side), module row 0 on top; the borders, text anchors and divider of the cell are flipped
\* by the same grid_h.  Hatch coordinates are numerators over den = n.
C9_VerticalFlipConsistency ==
    (Constructed /\ ValidConfig(config)) =>
        \A i \in DOMAIN docs :
            LET d == docs[i]
                cells == CellsOf(config, d)
                grid_h == PageTop(PageLines(d))
            IN
            \A k \in 0 .. Len(d.labels) - 1 :
                LET name == d.labels[k + 1]
                    x == cells[k].col * config.label_width_mm
                    y == cells[k].row * config.label_height_mm
                    size == config.qr_size_mm
                    left == x + config.qr_x_offset
                    top == y + config.qr_y_offset
                    cell == CellSegment(d.msp, k)
                    squares == EntitiesOfKind(cell, "HATCH")
                    lines == EntitiesOfKind(cell, "LINE")
                    texts == EntitiesOfKind(cell, "MTEXT")
                    divider == EntitiesOfKind(cell, "LWPOLYLINE")
                IN  /\ name \in DOMAIN qr_images =>
                        /\ \A j \in DOMAIN squares :
                               LET n == squares[j].den
                                   path == squares[j].path
                               IN  /\ n >= 1
                                   /\ Range(path) = Corners(path[1][1], path[1][2], size, size)
                                   /\ \A q \in DOMAIN path :
                                          /\ left * n <= path[q][1]
                                          /\ path[q][1] <= (left + size) * n
                                          /\ top * n <= grid_h * n - path[q][2]
                                          /\ grid_h * n - path[q][2] <= (top + size) * n
                        /\ ~Blank(qr_images[name]) =>
                               LET n == squares[1].den
                                   modules == DarkModules(qr_images[name])
                               IN  /\ \A j \in DOMAIN squares : squares[j].den = n
                                   /\ Len(squares) = Cardinality(modules)
                                   /\ { squares[j].path[1] : j \in DOMAIN squares }
                                        = { << left * n + rc[2] * size,
                                               (grid_h - (top + size)) * n
                                                   + (n - 1 - rc[1]) * size >> :
                                               rc \in modules }
                    /\ cells[k].onGrid
                    /\ grid_h = UsedRowsOf(cells) * config.label_height_mm
                    /\ \A j \in DOMAIN lines :
                           { lines[j].p1, lines[j].p2 } \subseteq
                               Corners(x, grid_h - (y + config.label_height_mm),
                                       config.label_width_mm, config.label_height_mm)
                    /\ [j \in DOMAIN texts |-> texts[j].insert]
                         = << << x + 130, grid_h - (y + 47) >>, << x + 130, grid_h - (y + 72) >>,
                              << x + 130, grid_h - (y + 92) >>, << x + 70, grid_h - (y + 157) >>,
                              << x + 190, grid_h - (y + 180) >> >>
                    /\ [j \in DOMAIN divider |-> divider[j].points]
                         = << << << x + 122, grid_h - (y + 22) >>,
                                 << x + 122, grid_h - (y + 102) >> >> >>

\* a label in the second row of a page has QR squares, one of them of module row 0
C9_Witness ==
    /\ Constructed /\ ValidConfig(config)
    /\ \E i \in DOMAIN docs : \E k \in 0 .. Len(docs[i].labels) - 1 :
           LET squares == EntitiesOfKind(CellSegment(docs[i].msp, k), "HATCH")
           IN  /\ CellsOf(config, docs[i])[k].row >= 1
               /\ docs[i].labels[k + 1] \in DOMAIN qr_images
               /\ squares # << >>
               /\ \E j \in DOMAIN squares :
                      squares[j].path[3][2] = squares[j].den *
                          (PageTop(PageLines(docs[i]))
                               - CellsOf(config, docs[i])[k].row * config.label_height_mm
                               - config.qr_y_offset)

-----------------------------------------------------------------------------
(* C8 *)

\* C8: a raster and the same raster with every pixel replaced by a factor x factor block
\* yield the same module count n and the same dark modules, hence the same squares.
C8_UpscalingInvariant ==
    (drawn # None /\ drawn_up # None) =>
        /\ drawn_up.dark = drawn.dark
        /\ drawn_up.n = drawn.n
        /\ drawn_up.hatches = drawn.hatches

-----------------------------------------------------------------------------
(* C10 *)

\* max(round(w / px), round(h / px)) clamped to [21, 177] for px = px2 / pxDen
ModulesFor(w, h, px2, pxDen) ==
    LET n == Max2(RoundHalfEven(w * pxDen, px2), RoundHalfEven(h * pxDen, px2))
    IN  IF n < 21 THEN 21 ELSE IF n > 177 THEN 177 ELSE n

\* what the run on img is to report: n from the median of the surviving gaps, or from
\* px = min(h, w) / 21 when there is no gap, within [21, 177], and one square per module
\* whose centre pixel is dark
EstimateAsStated(img, run) ==
    LET qr == CropToDark(Binarize(img))
        h == Len(qr)
        w == Len(qr[1])
        runs == RunLengths(qr)
        surviving == FilterRuns(runs)
    IN  /\ run.h = h /\ run.w = w
        /\ runs = << >> => run.n = ModulesFor(w, h, Min2(h, w), 21)
        /\ surviving # << >> => run.n = ModulesFor(w, h, Median2(surviving), 2)
        /\ 21 <= run.n /\ run.n <= 177
        /\ Len(run.hatches) <= run.n * run.n
        /\ Len(run.hatches) = Cardinality(DarkModules(img))

\* C10: for every raster with a dark pixel, cropped to its dark bounding box of width w and
\* height h, n = max(round(w / px), round(h / px)) clamped to [21, 177], px the median of
\* the gaps surviving the [0.5 * median, 1.5 * median] filter (px = min(h, w) / 21 when no
\* gap is found); 21 <= n <= 177, and at most n * n squares, one per module whose centre
\* pixel is dark.
C10_ModuleCountFormula ==
    /\ (drawn # None /\ drawn.dark) => EstimateAsStated(raster, drawn)
    /\ (drawn_up # None /\ drawn_up.dark) => EstimateAsStated(Upscale(raster, factor), drawn_up)

=============================================================================
